---- MODULE Spec2Model ----
(***************************************************************************)
(* serverless-import-apigateway: the ImportApiGatewayPlugin of             *)
(* src/lib/index.js.  One run of importApiGateway is modelled as the       *)
(* sequence of its continuations between awaited provider requests.        *)
(* The hook may fire again once a run has ended; the provider's inventory   *)
(* does not change, so a repeated request gets the answer it got before.    *)
(*                                                                         *)
(* JavaScript strings are sequences of one-character strings, so that      *)
(* String.prototype.startsWith and the isArn regular expression are        *)
(* computed on the characters.  The value undefined, where it can be an    *)
(* element of a list or the result of a property lookup, is the sequence   *)
(* undefined; an optional property is None (absent) or Some(value).        *)
(***************************************************************************)
EXTENDS Integers, Sequences, FiniteSets, TLC

\* ---------------------------------------------------------------- strings
MyApi == <<"m", "y", "-", "a", "p", "i">>
MyApiUpper == <<"M", "y", "-", "A", "p", "i">>
G1 == <<"g", "1">>
G2 == <<"g", "2">>
G3 == <<"g", "3">>
R0 == <<"a", "b", "c", "1", "2", "3">>
U1 == <<"u", "1">>
U2 == <<"u", "2">>
PRoot == <<"/">>
PUsers == <<"/", "u", "s", "e", "r", "s">>
PUsersId == <<"/", "u", "s", "e", "r", "s", "/", "{", "i", "d", "}">>
POrders == <<"/", "o", "r", "d", "e", "r", "s">>
PUsersNoSlash == <<"u", "s", "e", "r", "s">>
ArnCommon1 == <<"a", "r", "n", ":", "a", "w", "s", ":", "l", "a", "m", "b", "d", "a", ":", "u", "s", "-", "e", "a", "s", "t", "-", "1", ":", "0", "0", "0", "0", "0", "0", "0", "0", "0", "0", "0", "0", ":", "l", "a", "y", "e", "r", ":", "c", "o", "m", "m", "o", "n", ":", "1">>
ArnShared7 == <<"a", "r", "n", ":", "a", "w", "s", ":", "l", "a", "m", "b", "d", "a", ":", "u", "s", "-", "e", "a", "s", "t", "-", "1", ":", "0", "0", "0", "0", "0", "0", "0", "0", "0", "0", "0", "0", ":", "l", "a", "y", "e", "r", ":", "s", "h", "a", "r", "e", "d", "-", "u", "t", "i", "l", "s", ":", "7">>
ArnShared8 == <<"a", "r", "n", ":", "a", "w", "s", ":", "l", "a", "m", "b", "d", "a", ":", "u", "s", "-", "e", "a", "s", "t", "-", "1", ":", "0", "0", "0", "0", "0", "0", "0", "0", "0", "0", "0", "0", ":", "l", "a", "y", "e", "r", ":", "s", "h", "a", "r", "e", "d", "-", "u", "t", "i", "l", "s", ":", "8">>
SharedUtils == <<"s", "h", "a", "r", "e", "d", "-", "u", "t", "i", "l", "s">>
Missing == <<"m", "i", "s", "s", "i", "n", "g">>

\* ------------------------------------------------------- JavaScript values
undefined == <<"undefined">>
None == <<>>
Some(x) == <<x>>
IsSome(o) == o # <<>>
Val(o) == o[1]

\* !v for a string-or-undefined value: undefined and "" are falsy.
Falsy(v) == v = undefined \/ v = <<>>

\* A plain object with string keys, in insertion order: a sequence of <<key, value>>.
ObjHas(o, k) == \E i \in 1..Len(o) : o[i][1] = k
ObjGet(o, k) == IF ObjHas(o, k) THEN o[CHOOSE i \in 1..Len(o) : o[i][1] = k][2] ELSE undefined
ObjSet(o, k, v) ==
  IF ObjHas(o, k)
  THEN [i \in 1..Len(o) |-> IF o[i][1] = k THEN <<k, v>> ELSE o[i]]
  ELSE Append(o, <<k, v>>)
ObjKeys(o) == [i \in 1..Len(o) |-> o[i][1]]

startsWith(s, p) == Len(p) <= Len(s) /\ SubSeq(s, 1, Len(p)) = p

\* get(obj, 'step', defaultValue) for one step whose value, when present, is an array
\* (arrays are truthy, so only an absent property yields the default).
get(prop, defaultValue) == IF IsSome(prop) THEN Val(prop) ELSE defaultValue

\* ------------------------------------------------------------------ isArn
Lit(str) == <<[tok |-> "lit", chars |-> str]>>
AnyPlus == <<[tok |-> "plus", chars |-> <<>>]>>
DigitOrPlus == <<[tok |-> "class", chars |-> <<>>]>>
Digits == {"0", "1", "2", "3", "4", "5", "6", "7", "8", "9"}
LineTerminators == {"\n", "\r"}

\* /arn:aws:lambda:.+?:.+?:layer:.+?:[\d+]/g
ArnRegex ==
  Lit(<<"a", "r", "n", ":", "a", "w", "s", ":", "l", "a", "m", "b", "d", "a", ":">>)
  \o AnyPlus \o Lit(<<":">>)
  \o AnyPlus \o Lit(<<":", "l", "a", "y", "e", "r", ":">>)
  \o AnyPlus \o Lit(<<":">>)
  \o DigitOrPlus

\* The pattern from element j on matches str from position i on (the match may end
\* anywhere: the expression is not anchored).  A literal matches its characters, .+?
\* one or more characters that are not line terminators, [\d+] a digit or a plus sign.
RECURSIVE MatchFrom(_, _, _, _)
MatchFrom(re, str, i, j) ==
  IF j > Len(re) THEN TRUE
  ELSE CASE re[j].tok = "lit" ->
              /\ i + Len(re[j].chars) - 1 <= Len(str)
              /\ SubSeq(str, i, i + Len(re[j].chars) - 1) = re[j].chars
              /\ MatchFrom(re, str, i + Len(re[j].chars), j + 1)
         [] re[j].tok = "plus" ->
              \E n \in 1..(Len(str) - i + 1) :
                /\ \A k \in i..(i + n - 1) : str[k] \notin LineTerminators
                /\ MatchFrom(re, str, i + n, j + 1)
         [] re[j].tok = "class" ->
              /\ i <= Len(str)
              /\ str[i] \in Digits \cup {"+"}
              /\ MatchFrom(re, str, i + 1, j + 1)

\* isArn with a pattern that asks for a version of two characters.
isArn_twoDigitVersion(string) ==
  \E i \in 1..Len(string) : MatchFrom(ArnRegex \o DigitOrPlus, string, i, 1)

isArn(string) == \E i \in 1..Len(string) : MatchFrom(ArnRegex, string, i, 1)

\* ------------------------------------------------------------------ state
VARIABLES
  config,         \* this.config after the constructor: name, path, resources, resolveLayerArns
  service,        \* this.serverless.service: provider.layers, provider.apiGateway, functions
  pc,             \* position of importApiGateway
  reason,         \* why the run ended Aborted
  returned,       \* how the promise of importApiGateway settled, as its caller sees it
  raised,         \* the errors raised inside the try block of importApiGateway
  inflight,       \* provider requests issued and not yet settled
  requests,       \* every provider request issued, in order
  response,       \* the response the run received last
  existingLayers, \* resolveLayerArns: layer name -> latest version ARN
  restApiId,      \* importApiGateway: result of findRestApiIdByName
  pathIds,        \* importApiGateway: result of getRestApiPathIds
  log,            \* lines written to serverless.cli.log and console.error
  config0,        \* config when the run started
  service0,       \* service when the run started
  inventory,      \* what the provider has answered so far, per operation; it does not change
  previous        \* config, service and outcome of the run before this one, if any

vars == <<config, service, pc, reason, returned, raised, inflight, requests, response,
          existingLayers, restApiId, pathIds, log, config0, service0, inventory, previous>>

Line(kind, arg) == [kind |-> kind, arg |-> arg]

\* ------------------------------------------------------ Layer ARN resolver
\* The loop of _resolveLayerArns leaving the list at the first name the index lacks.
RECURSIVE ResolveLoop_stopAtMiss(_, _, _, _)
ResolveLoop_stopAtMiss(layers, layerIndex, i, acc) ==
  IF i > Len(layers) THEN acc
  ELSE IF layers[i] = undefined THEN [acc EXCEPT !.threw = TRUE]
  ELSE IF isArn(layers[i])
       THEN ResolveLoop_stopAtMiss(layers, layerIndex, i + 1,
                                   [acc EXCEPT !.value = Append(@, layers[i])])
       ELSE IF ~ObjHas(layerIndex, layers[i]) THEN acc
       ELSE ResolveLoop_stopAtMiss(layers, layerIndex, i + 1,
                                   [acc EXCEPT !.value = Append(@, ObjGet(layerIndex, layers[i])),
                                               !.resolvedAny = TRUE])

\* The loop of _resolveLayerArns from entry i on; acc holds resolvedLayers and
\* resolvedAny.  isArn(undefined) raises a TypeError (undefined has no match).
\* existingLayers[layer] never raises: for a name that is not a key it is undefined,
\* which is pushed like any other value, and the catch clause is never entered.
RECURSIVE ResolveLoop(_, _, _, _)
ResolveLoop(layers, layerIndex, i, acc) ==
  IF i > Len(layers) THEN acc
  ELSE IF layers[i] = undefined THEN [acc EXCEPT !.threw = TRUE]
  ELSE IF isArn(layers[i])
       THEN ResolveLoop(layers, layerIndex, i + 1,
                        [acc EXCEPT !.value = Append(@, layers[i])])
       ELSE ResolveLoop(layers, layerIndex, i + 1,
                        [acc EXCEPT !.value = Append(@, ObjGet(layerIndex, layers[i])),
                                    !.resolvedAny = TRUE])

\* _resolveLayerArns looking every entry up, the entries that match the ARN pattern
\* included.
RECURSIVE LookupLoop(_, _, _, _)
LookupLoop(layers, layerIndex, i, acc) ==
  IF i > Len(layers) THEN acc
  ELSE LookupLoop(layers, layerIndex, i + 1, Append(acc, ObjGet(layerIndex, layers[i])))
_resolveLayerArns_lookupAll(layers, layerIndex) ==
  IF ~IsSome(layers) THEN [log |-> <<>>, threw |-> TRUE, value |-> <<>>]
  ELSE [log |-> <<>>, threw |-> FALSE, value |-> LookupLoop(Val(layers), layerIndex, 1, <<>>)]

\* _resolveLayerArns(layers, existingLayers); layers is the property as read, so it may
\* be absent, and iterating undefined raises a TypeError.
_resolveLayerArns(layers, layerIndex) ==
  IF ~IsSome(layers) THEN [log |-> <<>>, threw |-> TRUE, value |-> <<>>]
  ELSE LET r == ResolveLoop(Val(layers), layerIndex, 1,
                            [threw |-> FALSE, value |-> <<>>, resolvedAny |-> FALSE])
       IN [log |-> IF ~r.threw /\ r.resolvedAny
                   THEN <<Line("ResolvedLayerArns", r.value)>> ELSE <<>>,
           threw |-> r.threw,
           value |-> r.value]

\* The loop over get(response, 'Layers', []) that fills existingLayers; reading
\* LayerVersionArn of an absent LatestMatchingVersion raises a TypeError.
RECURSIVE IndexLayers(_, _, _)
IndexLayers(layers, i, acc) ==
  IF i > Len(layers) THEN acc
  ELSE IF ~IsSome(layers[i].LatestMatchingVersion) THEN [acc EXCEPT !.threw = TRUE]
  ELSE IndexLayers(layers, i + 1,
         [acc EXCEPT !.value = ObjSet(@, layers[i].LayerName,
                                      Val(layers[i].LatestMatchingVersion).LayerVersionArn)])

\* The loop over Object.entries(functions) from function i on; st holds the service,
\* the log lines written and whether an error was raised.
RECURSIVE ResolveFunctions(_, _, _)
ResolveFunctions(st, layerIndex, i) ==
  IF i > Len(Val(st.service.functions)) THEN st
  ELSE LET func == Val(st.service.functions)[i] IN
       IF ~IsSome(func.layers) THEN ResolveFunctions(st, layerIndex, i + 1)
       ELSE LET r == _resolveLayerArns(func.layers, layerIndex) IN
            IF r.threw THEN [st EXCEPT !.threw = TRUE]
            ELSE ResolveFunctions(
                   [st EXCEPT !.service.functions[1][i].layers = Some(r.value),
                              !.log = @ \o r.log],
                   layerIndex, i + 1)

\* resolveLayerArns from the listLayers response on: the service it leaves, the
\* layer index, the lines logged, and whether it raised.
resolveLayerArns(resp, svc) ==
  LET idx == IndexLayers(get(resp.Layers, <<>>), 1, [threw |-> FALSE, value |-> <<>>])
      prov == _resolveLayerArns(svc.provider.layers, idx.value)
      st0 == [service |-> [svc EXCEPT !.provider.layers = Some(prov.value)],
              log |-> prov.log, threw |-> FALSE]
  IN IF idx.threw
     THEN [service |-> svc, existingLayers |-> idx.value, log |-> <<>>, threw |-> TRUE]
     ELSE IF prov.threw
     THEN [service |-> svc, existingLayers |-> idx.value, log |-> <<>>, threw |-> TRUE]
     ELSE IF ~IsSome(svc.functions)
     THEN [service |-> st0.service, existingLayers |-> idx.value, log |-> st0.log,
           threw |-> FALSE]
     ELSE LET st == ResolveFunctions(st0, idx.value, 1)
          IN [service |-> st.service, existingLayers |-> idx.value, log |-> st.log,
              threw |-> st.threw]

\* --------------------------------------------------------- Gateway locator
\* findRestApiIdByName comparing the names without regard to case.
Lower(c) == IF c = "M" THEN "m" ELSE IF c = "A" THEN "a" ELSE c
LowerCase(str) == [i \in 1..Len(str) |-> Lower(str[i])]
findRestApiIdByName_ignoreCase(name, resp) ==
  LET items == get(resp.items, <<>>)
      hits == {i \in 1..Len(items) : LowerCase(items[i].name) = LowerCase(name)}
  IN IF hits = {} THEN undefined
     ELSE items[CHOOSE i \in hits : \A k \in hits : i <= k].id

\* findRestApiIdByName returning the id of the last item whose name === name.
findRestApiIdByName_lastMatch(name, resp) ==
  LET items == get(resp.items, <<>>)
      hits == {i \in 1..Len(items) : items[i].name = name}
  IN IF hits = {} THEN undefined
     ELSE items[CHOOSE i \in hits : \A k \in hits : k <= i].id

\* findRestApiIdByName from the getRestApis response on: the id of the first item
\* whose name === name, undefined when the loop ends or items is absent.
findRestApiIdByName(name, resp) ==
  LET items == get(resp.items, <<>>)
      hits == {i \in 1..Len(items) : items[i].name = name}
  IN IF hits = {} THEN undefined
     ELSE items[CHOOSE i \in hits : \A k \in hits : i <= k].id

\* ------------------------------------------------- Path inventory resolver
RECURSIVE IndexPaths(_, _, _)
IndexPaths(items, i, acc) ==
  IF i > Len(items) THEN acc
  ELSE IndexPaths(items, i + 1, ObjSet(acc, items[i].path, items[i].id))

\* getRestApiPathIds from the getResources response on.
getRestApiPathIds(resp) == IndexPaths(get(resp.items, <<>>), 1, <<>>)

\* ------------------------------------------------ Resource selection engine
\* The loop over the entries of pathIds leaving at the first existing path that is a
\* prefix of the event path.
RECURSIVE PathLoop_firstMatch(_, _, _, _)
PathLoop_firstMatch(eventPath, index, k, acc) ==
  IF k > Len(index) THEN acc
  ELSE IF startsWith(eventPath, index[k][1]) THEN Append(acc, index[k][1])
  ELSE PathLoop_firstMatch(eventPath, index, k + 1, acc)

\* for (let [existingPath, pathId] of Object.entries(pathIds)) from entry k on.
RECURSIVE PathLoop(_, _, _, _)
PathLoop(eventPath, index, k, acc) ==
  IF k > Len(index) THEN acc
  ELSE PathLoop(eventPath, index, k + 1,
                IF startsWith(eventPath, index[k][1]) THEN Append(acc, index[k][1]) ELSE acc)

\* for (let event of func.events) from event j on.
RECURSIVE EventLoop(_, _, _, _)
EventLoop(events, index, j, acc) ==
  IF j > Len(events) THEN acc
  ELSE EventLoop(events, index, j + 1,
                 IF IsSome(events[j].http) /\ IsSome(Val(events[j].http).path)
                 THEN PathLoop(Val(Val(events[j].http).path), index, 1, acc)
                 ELSE acc)

\* for (let [fname, func] of Object.entries(functions)) from function i on.
RECURSIVE FunctionLoop(_, _, _, _)
FunctionLoop(functions, index, i, acc) ==
  IF i > Len(functions) THEN acc
  ELSE FunctionLoop(functions, index, i + 1,
                    IF IsSome(functions[i].events)
                    THEN EventLoop(Val(functions[i].events), index, 1, acc)
                    ELSE acc)

\* inferResources dropping the paths it has already recorded.
RECURSIVE Dedup(_, _, _)
Dedup(paths, i, acc) ==
  IF i > Len(paths) THEN acc
  ELSE Dedup(paths, i + 1,
             IF \E k \in 1..Len(acc) : acc[k] = paths[i] THEN acc ELSE Append(acc, paths[i]))
inferResources_dedup(resources, functions, index) ==
  IF IsSome(resources) THEN resources
  ELSE LET newResourcePaths ==
             IF IsSome(functions)
             THEN Dedup(FunctionLoop(Val(functions), index, 1, <<>>), 1, <<>>) ELSE <<>>
       IN IF Len(newResourcePaths) = 0 THEN Some(ObjKeys(index)) ELSE Some(newResourcePaths)

\* inferResources without the fallback to every path of the index.
inferResources_noFallback(resources, functions, index) ==
  IF IsSome(resources) THEN resources
  ELSE IF IsSome(functions) THEN Some(FunctionLoop(Val(functions), index, 1, <<>>))
  ELSE Some(<<>>)

\* inferResources taking an empty config.resources for an unset one.
inferResources_emptyIsUnset(resources, functions, index) ==
  IF IsSome(resources) /\ Len(Val(resources)) > 0 THEN resources
  ELSE LET newResourcePaths ==
             IF IsSome(functions) THEN FunctionLoop(Val(functions), index, 1, <<>>) ELSE <<>>
       IN IF Len(newResourcePaths) = 0 THEN Some(ObjKeys(index)) ELSE Some(newResourcePaths)

\* The value of config.resources after the block "if (this.config.resources === undefined)".
inferResources(resources, functions, index) ==
  IF IsSome(resources) THEN resources
  ELSE LET newResourcePaths ==
             IF IsSome(functions) THEN FunctionLoop(Val(functions), index, 1, <<>>) ELSE <<>>
       IN IF Len(newResourcePaths) = 0 THEN Some(ObjKeys(index)) ELSE Some(newResourcePaths)

\* for (let resourcePath of this.config.resources) from entry i on: the path at which
\* the loop returned early, if any, and resourcesToImport.
RECURSIVE ImportLoop(_, _, _, _)
ImportLoop(resources, index, i, acc) ==
  IF i > Len(resources) THEN [value |-> acc, missing |-> None]
  ELSE IF Falsy(ObjGet(index, resources[i])) THEN [value |-> acc, missing |-> Some(resources[i])]
  ELSE ImportLoop(resources, index, i + 1, ObjSet(acc, resources[i], ObjGet(index, resources[i])))

\* selectResources skipping the paths the index lacks instead of returning.
RECURSIVE SkipLoop(_, _, _, _)
SkipLoop(resources, index, i, acc) ==
  IF i > Len(resources) THEN [value |-> acc, missing |-> None]
  ELSE IF Falsy(ObjGet(index, resources[i])) THEN SkipLoop(resources, index, i + 1, acc)
  ELSE SkipLoop(resources, index, i + 1, ObjSet(acc, resources[i], ObjGet(index, resources[i])))
selectResources_skipMissing(resources, index) == SkipLoop(resources, index, 1, <<>>)

\* selectResources checking every path before it returns, so that it names the last
\* missing one.
selectResources_lastMissing(resources, index) ==
  LET absent == {i \in 1..Len(resources) : Falsy(ObjGet(index, resources[i]))} IN
  IF absent = {} THEN ImportLoop(resources, index, 1, <<>>)
  ELSE [value |-> <<>>,
        missing |-> Some(resources[CHOOSE i \in absent : \A k \in absent : k <= i])]

selectResources(resources, index) == ImportLoop(resources, index, 1, <<>>)

\* ----------------------------------------------------------- orchestrator
MaxRuns == 2       \* runs of importApiGateway on one plugin object
RunEnded == {"Committed", "Aborted"}

Received(op, data) == Some([op |-> op, data |-> data])

\* The provider answers a request from an inventory that stays as it is: the first
\* answer to an operation can be any response, a later one repeats it.
Answers(op, data) == IF ObjHas(inventory, op) THEN ObjGet(inventory, op) = data ELSE TRUE

\* A catch clause that throws the error again.
Catch_rethrow(message) ==
  /\ pc' = "Aborted"
  /\ reason' = "Exception"
  /\ returned' = "rejected"
  /\ log' = log

\* The catch clause of importApiGateway: the message goes to console.error and the
\* async function returns normally, so its promise resolves.
Catch(message) ==
  /\ pc' = "Aborted"
  /\ reason' = "Exception"
  /\ returned' = "resolved"
  /\ log' = Append(log, Line("console.error", message))

\* importApiGateway calling resolveLayerArns without awaiting it: both requests are
\* issued before either resolves.
importApiGateway_noAwait ==
  /\ pc = "Idle"
  /\ pc' = "LocatingGateway"
  /\ inflight' = inflight \cup {"listLayers", "getRestApis"}
  /\ requests' = requests \o <<"listLayers", "getRestApis">>
  /\ UNCHANGED <<config, service, reason, returned, raised, response, existingLayers,
                 restApiId, pathIds, log, config0, service0, inventory, previous>>

\* importApiGateway up to its first suspension: it calls resolveLayerArns, which
\* issues the listLayers request and awaits it.  config.resolveLayerArns is not read.
importApiGateway ==
  /\ pc = "Idle"
  /\ pc' = "ResolvingLayers"
  /\ inflight' = inflight \cup {"listLayers"}
  /\ requests' = Append(requests, "listLayers")
  /\ UNCHANGED <<config, service, reason, returned, raised, response, existingLayers,
                 restApiId, pathIds, log, config0, service0, inventory, previous>>

\* The runs of importApiGateway started so far: each starts with a listLayers request.
Runs == Cardinality({i \in 1..Len(requests) : requests[i] = "listLayers"})

\* The hook fires again on the same plugin object once the run before has ended:
\* importApiGateway starts on the config and the service that run left, and again
\* suspends on the listLayers request of resolveLayerArns.
importApiGatewayAgain ==
  /\ pc \in RunEnded
  /\ Runs < MaxRuns
  /\ previous' = Some([config |-> config, service |-> service, pc |-> pc])
  /\ pc' = "ResolvingLayers"
  /\ reason' = "None"
  /\ returned' = "pending"
  /\ raised' = <<>>
  /\ inflight' = {"listLayers"}
  /\ requests' = Append(requests, "listLayers")
  /\ response' = None
  /\ existingLayers' = <<>>
  /\ restApiId' = undefined
  /\ pathIds' = <<>>
  /\ UNCHANGED <<config, service, log, config0, service0, inventory>>

\* The listLayers request resolves: the rest of resolveLayerArns runs, then
\* findRestApiIdByName issues the getRestApis request and awaits it.
listLayersReturns(resp) ==
  /\ pc = "ResolvingLayers"
  /\ "listLayers" \in inflight
  /\ Answers("listLayers", resp)
  /\ inventory' = ObjSet(inventory, "listLayers", resp)
  /\ LET r == resolveLayerArns(resp, service) IN
     /\ service' = r.service
     /\ existingLayers' = r.existingLayers
     /\ response' = Received("listLayers", resp)
     /\ IF r.threw
        THEN /\ raised' = Append(raised, "TypeError")
             /\ Catch("TypeError")
             /\ inflight' = inflight \ {"listLayers"}
             /\ UNCHANGED requests
        ELSE /\ log' = log \o r.log
             /\ pc' = "LocatingGateway"
             /\ inflight' = (inflight \ {"listLayers"}) \cup {"getRestApis"}
             /\ requests' = Append(requests, "getRestApis")
             /\ UNCHANGED <<reason, returned, raised>>
  /\ UNCHANGED <<config, restApiId, pathIds, config0, service0, previous>>

\* The getRestApis request resolves: the gateway is looked up by name and, when it is
\* found, getRestApiPathIds issues the getResources request and awaits it.
getRestApisReturns(resp) ==
  /\ pc = "LocatingGateway"
  /\ "getRestApis" \in inflight
  /\ Answers("getRestApis", resp)
  /\ inventory' = ObjSet(inventory, "getRestApis", resp)
  /\ LET id == findRestApiIdByName(config.name, resp) IN
     /\ restApiId' = id
     /\ response' = Received("getRestApis", resp)
     /\ IF Falsy(id)
        THEN /\ log' = Append(log, Line("UnableToFindRestApi", config.name))
             /\ pc' = "Aborted"
             /\ reason' = "GatewayNotFound"
             /\ returned' = "resolved"
             /\ inflight' = inflight \ {"getRestApis"}
             /\ UNCHANGED requests
        ELSE /\ pc' = "IndexingPaths"
             /\ inflight' = (inflight \ {"getRestApis"}) \cup {"getResources"}
             /\ requests' = Append(requests, "getResources")
             /\ UNCHANGED <<log, reason, returned>>
  /\ UNCHANGED <<config, service, raised, existingLayers, pathIds, config0, service0, previous>>

\* The assignments of lines 123-125 with the gateway id written as the root resource id.
Commit_idAsRoot(gw, id, rootResourceId, resourcesToImport) ==
  [gw EXCEPT !.restApiId = Some(id),
             !.restApiRootResourceId = Some(id),
             !.restApiResources = Some(resourcesToImport)]

\* The assignments of lines 123-125.
Commit(gw, id, rootResourceId, resourcesToImport) ==
  [gw EXCEPT !.restApiId = Some(id),
             !.restApiRootResourceId = Some(rootResourceId),
             !.restApiResources = Some(resourcesToImport)]

\* importResources inferring config.resources before it checks the root path.
importResources_inferFirst(cfg, svc, id, index) ==
  LET rootResourceId == ObjGet(index, cfg.path)
      resources == inferResources(cfg.resources, svc.functions, index)
      sel == selectResources(Val(resources), index)
      gw == Commit(svc.provider.apiGateway, id, rootResourceId, sel.value)
  IN IF Falsy(rootResourceId)
     THEN [config |-> [cfg EXCEPT !.resources = resources], service |-> svc,
           pc |-> "Aborted", reason |-> "RootPathNotFound",
           line |-> Line("UnableToFindRootResourcePath", <<cfg.path, id>>)]
     ELSE IF IsSome(sel.missing)
     THEN [config |-> [cfg EXCEPT !.resources = resources], service |-> svc,
           pc |-> "Aborted", reason |-> "MissingPath",
           line |-> Line("UnableToFindResourcePath", <<Val(sel.missing), id>>)]
     ELSE [config |-> [cfg EXCEPT !.resources = resources],
           service |-> [svc EXCEPT !.provider.apiGateway = gw],
           pc |-> "Committed", reason |-> "None",
           line |-> Line("ImportedApiGateway", gw)]

\* importResources writing restApiId as soon as the gateway is known, before the root
\* path and the resource paths are checked.
importResources_writeEarly(cfg, svc, id, index) ==
  LET rootResourceId == ObjGet(index, cfg.path)
      resources == inferResources(cfg.resources, svc.functions, index)
      sel == selectResources(Val(resources), index)
      early == [svc EXCEPT !.provider.apiGateway.restApiId = Some(id)]
      gw == Commit(svc.provider.apiGateway, id, rootResourceId, sel.value)
  IN IF Falsy(rootResourceId)
     THEN [config |-> cfg, service |-> early, pc |-> "Aborted", reason |-> "RootPathNotFound",
           line |-> Line("UnableToFindRootResourcePath", <<cfg.path, id>>)]
     ELSE IF IsSome(sel.missing)
     THEN [config |-> [cfg EXCEPT !.resources = resources], service |-> early,
           pc |-> "Aborted", reason |-> "MissingPath",
           line |-> Line("UnableToFindResourcePath", <<Val(sel.missing), id>>)]
     ELSE [config |-> [cfg EXCEPT !.resources = resources],
           service |-> [svc EXCEPT !.provider.apiGateway = gw],
           pc |-> "Committed", reason |-> "None",
           line |-> Line("ImportedApiGateway", gw)]

\* importApiGateway from the path index on (lines 76-126): where the run ends, and
\* the config, the service and the line logged there.
importResources(cfg, svc, id, index) ==
  LET rootResourceId == ObjGet(index, cfg.path)
      resources == inferResources(cfg.resources, svc.functions, index)
      sel == selectResources(Val(resources), index)
      gw == Commit(svc.provider.apiGateway, id, rootResourceId, sel.value)
  IN IF Falsy(rootResourceId)
     THEN [config |-> cfg, service |-> svc, pc |-> "Aborted", reason |-> "RootPathNotFound",
           line |-> Line("UnableToFindRootResourcePath", <<cfg.path, id>>)]
     ELSE IF IsSome(sel.missing)
     THEN [config |-> [cfg EXCEPT !.resources = resources], service |-> svc,
           pc |-> "Aborted", reason |-> "MissingPath",
           line |-> Line("UnableToFindResourcePath", <<Val(sel.missing), id>>)]
     ELSE [config |-> [cfg EXCEPT !.resources = resources],
           service |-> [svc EXCEPT !.provider.apiGateway = gw],
           pc |-> "Committed", reason |-> "None",
           line |-> Line("ImportedApiGateway", gw)]

\* The getResources request resolves: the path index is built and the rest of
\* importApiGateway runs to its end.
getResourcesReturns(resp) ==
  /\ pc = "IndexingPaths"
  /\ "getResources" \in inflight
  /\ Answers("getResources", resp)
  /\ inventory' = ObjSet(inventory, "getResources", resp)
  /\ LET index == getRestApiPathIds(resp)
         r == importResources(config, service, restApiId, index)
     IN /\ pathIds' = index
        /\ response' = Received("getResources", resp)
        /\ inflight' = inflight \ {"getResources"}
        /\ returned' = "resolved"
        /\ pc' = r.pc
        /\ reason' = r.reason
        /\ config' = r.config
        /\ service' = r.service
        /\ log' = Append(log, r.line)
  /\ UNCHANGED <<raised, requests, existingLayers, restApiId, config0, service0, previous>>

\* The provider request in flight is rejected (transport error, credentials, ...):
\* the await raises inside the try block.
requestRejects ==
  /\ inflight # {}
  /\ pc \in {"ResolvingLayers", "LocatingGateway", "IndexingPaths"}
  /\ raised' = Append(raised, "RequestError")
  /\ Catch("RequestError")
  /\ inflight' = {}
  /\ UNCHANGED <<config, service, requests, response, existingLayers, restApiId, pathIds,
                 config0, service0, inventory, previous>>

\* ----------------------------------------------------------------- inputs
MaxLayers == 2     \* layer references in the service, provider and functions together
MaxFuncs == 2      \* functions in the service
MaxEvents == 2     \* events in the service, all functions together
MaxResources == 2  \* entries of an explicit config.resources
MaxResourceItems == 2      \* resources in a getResources response

SeqsUpTo(S, n) == UNION {[1..k -> S] : k \in 0..n}
Opt(S) == {None} \cup {Some(x) : x \in S}

OptLen(o) == IF IsSome(o) THEN Len(Val(o)) ELSE 0
RECURSIVE SumLayers(_, _)
SumLayers(functions, i) ==
  IF i > Len(functions) THEN 0 ELSE OptLen(functions[i].layers) + SumLayers(functions, i + 1)
RECURSIVE SumEvents(_, _)
SumEvents(functions, i) ==
  IF i > Len(functions) THEN 0 ELSE OptLen(functions[i].events) + SumEvents(functions, i + 1)
TotalLayers(svc) ==
  OptLen(svc.provider.layers)
    + (IF IsSome(svc.functions) THEN SumLayers(Val(svc.functions), 1) ELSE 0)
TotalEvents(svc) == IF IsSome(svc.functions) THEN SumEvents(Val(svc.functions), 1) ELSE 0

\* Layer references: a versioned ARN, a bare name the account has, a bare name it lacks.
LayerRefs == {ArnCommon1, SharedUtils, Missing}
LayerLists == Opt(SeqsUpTo(LayerRefs, MaxLayers))

NoHttp == [http |-> None]
Http(path) == [http |-> Some([path |-> Some(path)])]
Events == {NoHttp, Http(PUsersId), Http(PUsersNoSlash)}
EventLists == Opt(SeqsUpTo(Events, MaxEvents))

EmptyGateway == [restApiId |-> None, restApiRootResourceId |-> None, restApiResources |-> None]

FunctionLists(FuncLayers, FuncEvents) ==
  {functions \in SeqsUpTo([layers : FuncLayers, events : FuncEvents], MaxFuncs) :
     SumLayers(functions, 1) <= MaxLayers /\ SumEvents(functions, 1) <= MaxEvents}

Services(ProviderLayers, FuncLayers, FuncEvents) ==
  {svc \in [functions : Opt(FunctionLists(FuncLayers, FuncEvents)),
            provider : [layers : ProviderLayers, apiGateway : {EmptyGateway}]] :
     TotalLayers(svc) <= MaxLayers /\ TotalEvents(svc) <= MaxEvents}

Configs(Paths, Resources) ==
  [resolveLayerArns : BOOLEAN, name : {MyApi}, path : Paths, resources : Resources]

\* listLayers responses: no Layers property, no layer, one layer, the same name twice,
\* another layer only, and an item without LatestMatchingVersion.
LayerItem(name, arn) == [LatestMatchingVersion |-> Some([LayerVersionArn |-> arn]), LayerName |-> name]
LayerResponses ==
  {[Layers |-> None],
   [Layers |-> Some(<<>>)],
   [Layers |-> Some(<<LayerItem(SharedUtils, ArnShared7)>>)],
   [Layers |-> Some(<<LayerItem(SharedUtils, ArnShared7), LayerItem(SharedUtils, ArnShared8)>>)],
   [Layers |-> Some(<<[LatestMatchingVersion |-> None, LayerName |-> SharedUtils]>>)]}

OneLayerResponse == {[Layers |-> Some(<<LayerItem(SharedUtils, ArnShared7)>>)]}

\* getRestApis responses: no list, no gateway, names that differ from config.name by case, or match it once or twice.
RestApi(name, id) == [name |-> name, id |-> id]
ApiResponses ==
  {[items |-> None],
   [items |-> Some(<<>>)],
   [items |-> Some(<<RestApi(MyApiUpper, G2)>>)],
   [items |-> Some(<<RestApi(MyApiUpper, G2), RestApi(MyApi, G1)>>)],
   [items |-> Some(<<RestApi(MyApi, G3), RestApi(MyApi, G1)>>)]}

\* getResources responses.
Resource(path, id) == [id |-> id, path |-> path]
Resources == {Resource(PRoot, R0), Resource(PUsers, U1), Resource(PUsers, U2)}
ResourceResponses == [items : Opt(SeqsUpTo(Resources, MaxResourceItems))]
FewResourceResponses ==
  {[items |-> None],
   [items |-> Some(<<Resource(PUsers, U1)>>)],
   [items |-> Some(<<Resource(PRoot, R0), Resource(PUsers, U1)>>)]}

InitRun(cfg, svc) ==
  /\ config = cfg
  /\ service = svc
  /\ pc = "Idle"
  /\ reason = "None"
  /\ returned = "pending"
  /\ raised = <<>>
  /\ inflight = {}
  /\ requests = <<>>
  /\ response = None
  /\ existingLayers = <<>>
  /\ restApiId = undefined
  /\ pathIds = <<>>
  /\ log = <<>>
  /\ config0 = cfg
  /\ service0 = svc
  /\ inventory = <<>>
  /\ previous = None

\* Layer lists of every shape, functions without events.
Init ==
  \E cfg \in Configs({PRoot}, {None}) :
    \E svc \in Services(LayerLists, LayerLists, {None}) : InitRun(cfg, svc)

Next ==
  \/ importApiGateway
  \/ \E resp \in LayerResponses : listLayersReturns(resp)
  \/ \E resp \in ApiResponses : getRestApisReturns(resp)
  \/ \E resp \in FewResourceResponses : getResourcesReturns(resp)
  \/ requestRejects

Spec == Init /\ [][Next]_vars

\* Function events and config.resources of every shape, layer lists present.
InitSelect ==
  \/ \E cfg \in Configs({PRoot, PUsers}, {None}) :
       \E svc \in Services({Some(<<>>)}, {None}, EventLists) : InitRun(cfg, svc)
  \/ \E cfg \in Configs({PRoot, PUsers}, Opt(SeqsUpTo({PUsers, POrders}, MaxResources)) \ {None}) :
       \E svc \in Services({Some(<<>>), Some(<<SharedUtils>>)}, {None}, {Some(<<Http(PUsersId)>>)}) :
         InitRun(cfg, svc)

NextSelect ==
  \/ importApiGateway
  \/ \E resp \in OneLayerResponse : listLayersReturns(resp)
  \/ \E resp \in ApiResponses : getRestApisReturns(resp)
  \/ \E resp \in ResourceResponses : getResourcesReturns(resp)
  \/ requestRejects

SpecSelect == InitSelect /\ [][NextSelect]_vars

\* Runs that follow one another against one inventory, the provider answering every
\* request: layer lists of every shape at the provider level, at most one function
\* with a layer list, config.resources unset.
RerunLayerLists == Opt(SeqsUpTo(LayerRefs \cup {ArnShared7}, MaxLayers))
RerunFunctions ==
  {None} \cup {Some(<<[layers |-> l, events |-> None]>>) : l \in RerunLayerLists}
RerunServices ==
  {svc \in [functions : RerunFunctions,
            provider : [layers : RerunLayerLists, apiGateway : {EmptyGateway}]] :
     TotalLayers(svc) <= MaxLayers}
InitRerun ==
  \E cfg \in Configs({PRoot}, {None}) :
    \E svc \in RerunServices : cfg.resolveLayerArns /\ InitRun(cfg, svc)

NextRerun ==
  \/ importApiGateway
  \/ importApiGatewayAgain
  \/ \E resp \in LayerResponses : listLayersReturns(resp)
  \/ \E resp \in ApiResponses : getRestApisReturns(resp)
  \/ \E resp \in FewResourceResponses : getResourcesReturns(resp)

SpecRerun == InitRerun /\ [][NextRerun]_vars

\* ----------------------------------------------------------------- claims
Range(s) == {s[i] : i \in 1..Len(s)}
HasLog(kind, arg) == \E i \in 1..Len(log) : log[i].kind = kind /\ log[i].arg = arg
RespIs(op) == IsSome(response) /\ Val(response).op = op
RespItems == get(Val(response).data.items, <<>>)

\* The service differs from the one the run started with in its layer lists at most.
SameButLayers ==
  /\ service.provider.apiGateway = service0.provider.apiGateway
  /\ IsSome(service.functions) = IsSome(service0.functions)
  /\ IsSome(service.functions) =>
       /\ Len(Val(service.functions)) = Len(Val(service0.functions))
       /\ \A i \in 1..Len(Val(service.functions)) :
            Val(service.functions)[i].events = Val(service0.functions)[i].events

\* The getRestApis response has arrived and none of its gateways is named config.name.
GatewayAbsent ==
  /\ RespIs("getRestApis")
  /\ \A i \in 1..Len(RespItems) : RespItems[i].name # config.name

\* The bare names of a layer list that the layer index lacks.
Unresolved(layers) ==
  {i \in 1..Len(layers) : ~isArn(layers[i]) /\ ~ObjHas(existingLayers, layers[i])}

\* Layer resolution was asked for and every bare name of the service is in the
\* inventory: what such a run does to the layer lists is what layer resolution is for.
LayersAllFound ==
  /\ config.resolveLayerArns
  /\ IsSome(service0.provider.layers) /\ Unresolved(Val(service0.provider.layers)) = {}
  /\ IsSome(service0.functions) =>
       \A i \in 1..Len(Val(service0.functions)) :
         IsSome(Val(service0.functions)[i].layers) =>
           Unresolved(Val(Val(service0.functions)[i].layers)) = {}

\* C1 as stated, in the runs where layer resolution is enabled and finds every name:
\* when no gateway returned by the provider is named config.name, the run ends
\* Aborted, the log holds "Unable to find REST API named '<config.name>'", and the
\* deployment model (provider.layers, every function's layers and
\* provider.apiGateway) equals the model before the run.
C1_Original ==
  GatewayAbsent /\ LayersAllFound =>
    /\ pc = "Aborted"
    /\ HasLog("UnableToFindRestApi", config.name)
    /\ service = service0

\* C1 amended: when the getRestApis response holds no gateway named config.name, the
\* run ends Aborted for that reason, the log holds the line, and config,
\* provider.apiGateway and the functions' events equal their values before the run;
\* the layer lists are as layer resolution, which ran first, left them.
C1_GatewayNotFound ==
  GatewayAbsent =>
    /\ pc = "Aborted"
    /\ reason = "GatewayNotFound"
    /\ returned = "resolved"
    /\ HasLog("UnableToFindRestApi", config.name)
    /\ config = config0
    /\ SameButLayers

C1_Witness ==
  /\ GatewayAbsent
  /\ Len(RespItems) > 0
  /\ reason = "GatewayNotFound"
  /\ service.provider.layers # service0.provider.layers

\* C3 as stated: with config.resolveLayerArns = false no listLayers request is issued,
\* the run never is in ResolvingLayers, and provider.layers and every function's
\* layers are left as they were.
C3_ResolutionOnlyWhenEnabled ==
  ~config.resolveLayerArns =>
    /\ "listLayers" \notin Range(requests)
    /\ pc # "ResolvingLayers"
    /\ service.provider.layers = service0.provider.layers
    /\ service.functions = service0.functions

\* resolveLayerArns has run to its end.
LayersResolved == "getRestApis" \in Range(requests)

\* Every entry of the resolved list is an input entry that matches the ARN pattern or
\* a value of the layer index; the bare names the index lacks are omitted and logged.
ResolvedAsClaimed(input, resolved) ==
  /\ \A j \in 1..Len(resolved) :
       \/ \E i \in 1..Len(input) : input[i] = resolved[j] /\ isArn(input[i])
       \/ \E k \in 1..Len(existingLayers) : existingLayers[k][2] = resolved[j]
  /\ Len(resolved) = Len(input) - Cardinality(Unresolved(input))
  /\ \A i \in Unresolved(input) : HasLog("UnableToFindLayer", input[i])

\* C4 as stated: after layer resolution every entry of every resolved layer list
\* (provider-level and per-function) is an input entry that matched the ARN pattern or
\* an ARN of the layer index; a bare name absent from the inventory is omitted from
\* the resolved list and a diagnostic naming it is logged.
C4_UnresolvedOmittedAndLogged ==
  LayersResolved =>
    /\ ResolvedAsClaimed(Val(service0.provider.layers), Val(service.provider.layers))
    /\ IsSome(service0.functions) =>
         \A i \in 1..Len(Val(service0.functions)) :
           IsSome(Val(service0.functions)[i].layers) =>
             ResolvedAsClaimed(Val(Val(service0.functions)[i].layers),
                               Val(Val(service.functions)[i].layers))

\* The getResources response has arrived and config.path is the path of none of its
\* resources.
RootAbsent ==
  /\ RespIs("getResources")
  /\ \A i \in 1..Len(RespItems) : RespItems[i].path # config.path

\* C8 as stated, in the runs where layer resolution is enabled and finds every name:
\* when config.path is not a key of the path index the run ends Aborted with a log
\* line, config.resources is not populated, provider.apiGateway is not written, and
\* the deployment model equals the model before the run.
C8_Original ==
  RootAbsent /\ LayersAllFound =>
    /\ pc = "Aborted"
    /\ HasLog("UnableToFindRootResourcePath", <<config.path, restApiId>>)
    /\ config = config0
    /\ service = service0

\* C8 amended: when config.path is not a key of the path index the run ends Aborted
\* for that reason with the log line, config.resources is not populated, and
\* provider.apiGateway and the functions' events equal their values before the run;
\* the layer lists are as layer resolution left them.
C8_RootPathNotFound ==
  RootAbsent =>
    /\ pc = "Aborted"
    /\ reason = "RootPathNotFound"
    /\ HasLog("UnableToFindRootResourcePath", <<config.path, restApiId>>)
    /\ config = config0
    /\ SameButLayers

C8_Witness ==
  /\ RootAbsent
  /\ Len(RespItems) > 0
  /\ reason = "RootPathNotFound"
  /\ service.provider.layers # service0.provider.layers

\* C9: an error raised by a provider request or while its response is processed, in
\* any state, ends the run Aborted with the error logged, and the promise of
\* importApiGateway resolves: it never rejects.
C9_FailuresAreCaught ==
  /\ returned # "rejected"
  /\ raised # <<>> =>
       /\ pc = "Aborted"
       /\ returned = "resolved"
       /\ Len(log) > 0
       /\ log[Len(log)] = Line("console.error", raised[Len(raised)])

C9_Witness ==
  /\ raised = <<"RequestError">>
  /\ requests = <<"listLayers", "getRestApis", "getResources">>
  /\ pc = "Aborted"

\* No bare layer name is left in a layer list.
NoBareName(layers) ==
  IsSome(layers) => \A i \in 1..Len(Val(layers)) : Val(layers)[i] = undefined \/ isArn(Val(layers)[i])

\* C10: the getRestApis request is issued after the listLayers request, or layer
\* resolution was skipped; while it is in flight the listLayers response has been
\* received and no layer list holds a bare name any more; at most one provider
\* request is in flight at any time.
C10_LayersBeforeGateway ==
  /\ Cardinality(inflight) <= 1
  /\ \A i \in 1..Len(requests) :
       requests[i] = "getRestApis" =>
         \/ ~config.resolveLayerArns /\ "listLayers" \notin Range(requests)
         \/ /\ \E j \in 1..(i - 1) : requests[j] = "listLayers"
            /\ "listLayers" \notin inflight
  /\ "getRestApis" \in inflight /\ "listLayers" \in Range(requests) =>
       /\ RespIs("listLayers")
       /\ NoBareName(service.provider.layers)
       /\ IsSome(service.functions) =>
            \A k \in 1..Len(Val(service.functions)) :
              NoBareName(Val(service.functions)[k].layers)

C10_Witness ==
  /\ inflight = {"getRestApis"}
  /\ service.provider.layers # service0.provider.layers
  /\ service.functions # service0.functions

\* The path index as the getResources response defines it: the paths of the items, in
\* the order of their first occurrence, each with the id of its last occurrence.
InIndex(path) == \E i \in 1..Len(RespItems) : RespItems[i].path = path
PathId(path) ==
  RespItems[CHOOSE i \in 1..Len(RespItems) :
              /\ RespItems[i].path = path
              /\ \A k \in (i + 1)..Len(RespItems) : RespItems[k].path # path].id
KeyPositions ==
  {i \in 1..Len(RespItems) : \A k \in 1..(i - 1) : RespItems[k].path # RespItems[i].path}

\* The getResources response has arrived and holds config.path: the run reached
\* resource selection.
SelectionReached == RespIs("getResources") /\ InIndex(config.path)

\* restApiResources maps exactly the given paths, each to its id in the path index.
ImportedExactly(paths) ==
  /\ IsSome(service.provider.apiGateway.restApiResources)
  /\ LET imported == Val(service.provider.apiGateway.restApiResources) IN
     /\ {imported[k][1] : k \in 1..Len(imported)} = paths
     /\ Len(imported) = Cardinality(paths)
     /\ \A k \in 1..Len(imported) : imported[k][2] = PathId(imported[k][1])

\* C2: with config.resources explicitly set, resource selection succeeds iff every
\* path of config.resources is a key of the path index; when it succeeds
\* restApiResources holds exactly the paths of config.resources, each mapped to its id
\* in the index, and otherwise the run fails with MissingPath.
C2_ExplicitSelection ==
  SelectionReached /\ IsSome(config0.resources) =>
    LET wanted == Val(config0.resources) IN
    /\ (pc = "Committed") <=> (\A i \in 1..Len(wanted) : InIndex(wanted[i]))
    /\ pc = "Committed" => ImportedExactly(Range(wanted))
    /\ pc # "Committed" => pc = "Aborted" /\ reason = "MissingPath"

C2_Witness ==
  /\ SelectionReached
  /\ config0.resources = Some(<<PUsers>>)
  /\ Len(RespItems) = 2 /\ RespItems[1].path = PUsers /\ RespItems[2] = Resource(PUsers, U2)
  /\ pc = "Committed"

\* The matches of the inference: function f, its event e with an HTTP path, and the
\* position i of an index key that is a prefix of that path.
Matches ==
  IF ~IsSome(service0.functions) THEN {}
  ELSE LET functions == Val(service0.functions) IN
       {t \in (1..Len(functions)) \X (1..MaxEvents) \X KeyPositions :
          /\ IsSome(functions[t[1]].events)
          /\ t[2] <= Len(Val(functions[t[1]].events))
          /\ LET event == Val(functions[t[1]].events)[t[2]] IN
             /\ IsSome(event.http)
             /\ IsSome(Val(event.http).path)
             /\ startsWith(Val(Val(event.http).path), RespItems[t[3]].path)}
Before(u, t) ==
  \/ u[1] < t[1]
  \/ u[1] = t[1] /\ u[2] < t[2]
  \/ u[1] = t[1] /\ u[2] = t[2] /\ u[3] < t[3]
Rank(t) == 1 + Cardinality({u \in Matches : Before(u, t)})

\* C5: with config.resources unset and at least one event path that has an existing
\* path as a prefix, the inferred config.resources is the list got by visiting the
\* functions in order, their HTTP events in order and the index entries in order,
\* appending each existing path that is a prefix of the event path; duplicates stay.
C5_InferredFromEvents ==
  SelectionReached /\ ~IsSome(config0.resources) /\ Matches # {} =>
    /\ IsSome(config.resources)
    /\ Len(Val(config.resources)) = Cardinality(Matches)
    /\ \A t \in Matches : Val(config.resources)[Rank(t)] = RespItems[t[3]].path

C5_Witness ==
  /\ SelectionReached
  /\ ~IsSome(config0.resources)
  /\ Cardinality(Matches) = 4
  /\ Len(Val(service0.functions)) = 2
  /\ Val(config.resources) = <<PUsers, PRoot, PUsers, PRoot>>

\* C6: with config.resources unset and no function, no HTTP event with a path, or no
\* event path that has an existing path as a prefix, config.resources becomes the
\* keys of the path index and restApiResources the whole path index.
C6_FallbackToAllPaths ==
  SelectionReached /\ ~IsSome(config0.resources) /\ Matches = {} =>
    /\ pc = "Committed"
    /\ IsSome(config.resources)
    /\ Range(Val(config.resources)) = {RespItems[i].path : i \in 1..Len(RespItems)}
    /\ Len(Val(config.resources)) = Cardinality(KeyPositions)
    /\ ImportedExactly({RespItems[i].path : i \in 1..Len(RespItems)})

C6_Witness ==
  /\ SelectionReached
  /\ ~IsSome(config0.resources)
  /\ Matches = {}
  /\ IsSome(service0.functions)
  /\ \E i \in 1..Len(Val(service0.functions)) :
       Val(service0.functions)[i].events = Some(<<Http(PUsersNoSlash)>>)
  /\ Cardinality(KeyPositions) = 2
  /\ pc = "Committed"

\* config.resources is explicitly set and one of its paths is not in the path index.
MissingExplicit ==
  /\ SelectionReached
  /\ IsSome(config0.resources)
  /\ \E i \in 1..Len(Val(config0.resources)) : ~InIndex(Val(config0.resources)[i])
FirstMissing ==
  LET wanted == Val(config0.resources) IN
  wanted[CHOOSE i \in 1..Len(wanted) :
           ~InIndex(wanted[i]) /\ \A k \in 1..(i - 1) : InIndex(wanted[k])]

\* C7 as stated, in the runs where layer resolution is enabled and finds every name:
\* with config.resources explicitly set and an entry absent from the path index, the
\* run ends Aborted with a log line naming the first missing path, provider.apiGateway
\* is not written, and the deployment model equals the model before the run.
C7_Original ==
  MissingExplicit /\ LayersAllFound =>
    /\ pc = "Aborted"
    /\ HasLog("UnableToFindResourcePath", <<FirstMissing, restApiId>>)
    /\ service.provider.apiGateway = EmptyGateway
    /\ service = service0

\* C7 amended: with config.resources explicitly set and an entry absent from the path
\* index, the run ends Aborted with a log line naming the first missing path, and
\* config, provider.apiGateway and the functions' events equal their values before
\* the run; the layer lists are as layer resolution left them.
C7_MissingPath ==
  MissingExplicit =>
    /\ pc = "Aborted"
    /\ reason = "MissingPath"
    /\ HasLog("UnableToFindResourcePath", <<FirstMissing, restApiId>>)
    /\ service.provider.apiGateway = EmptyGateway
    /\ config = config0
    /\ SameButLayers

C7_Witness ==
  /\ MissingExplicit
  /\ config0.resources = Some(<<PUsers, POrders>>)
  /\ InIndex(PUsers)
  /\ reason = "MissingPath"
  /\ service.provider.layers # service0.provider.layers

\* The layer inventory as the listLayers response gives it: a name is in it when an
\* item carries it, and its latest ARN is the one of the last such item.
LayerItems == get(Val(response).data.Layers, <<>>)
InInventory(name) == \E i \in 1..Len(LayerItems) : LayerItems[i].LayerName = name
LatestArn(name) ==
  Val(LayerItems[CHOOSE i \in 1..Len(LayerItems) :
                   /\ LayerItems[i].LayerName = name
                   /\ \A k \in (i + 1)..Len(LayerItems) : LayerItems[k].LayerName # name
                ].LatestMatchingVersion).LayerVersionArn

\* Layer resolution has just run to its end: the listLayers response is the last one
\* received and the getRestApis request is in flight.
LayersJustResolved == "getRestApis" \in inflight /\ RespIs("listLayers")

\* A list whose bare names are all in the inventory is resolved in place.
ResolvedInPlace(input, resolved) ==
  (\A i \in 1..Len(input) : isArn(input[i]) \/ InInventory(input[i])) =>
    /\ Len(resolved) = Len(input)
    /\ \A i \in 1..Len(input) :
         resolved[i] = IF isArn(input[i]) THEN input[i] ELSE LatestArn(input[i])

\* C11: once layer resolution has run, the provider-level list and every function's
\* list whose bare names are all in the layer inventory has the length and the order
\* of the input: position i holds the input entry unchanged when it matches the ARN
\* pattern and otherwise the latest ARN the inventory records for that name.
C11_ResolvedInPlace ==
  LayersJustResolved =>
    /\ ResolvedInPlace(Val(service0.provider.layers), Val(service.provider.layers))
    /\ IsSome(service0.functions) =>
         \A f \in 1..Len(Val(service0.functions)) :
           IsSome(Val(service0.functions)[f].layers) =>
             ResolvedInPlace(Val(Val(service0.functions)[f].layers),
                             Val(Val(service.functions)[f].layers))

C11_Witness ==
  /\ LayersJustResolved
  /\ Len(LayerItems) = 2
  /\ service0.provider.layers = Some(<<ArnCommon1, SharedUtils>>)
  /\ service.provider.layers = Some(<<ArnCommon1, ArnShared8>>)

\* The listLayers response is the last one received and every item of it carries a
\* LatestMatchingVersion: building the layer index raised no error.
LayersListed ==
  /\ RespIs("listLayers")
  /\ \A i \in 1..Len(LayerItems) : IsSome(LayerItems[i].LatestMatchingVersion)

\* C12 as stated: whatever the provider-level layer list is (absent or present, its
\* names found or not), once the layers are listed every function that has a layers
\* list gets that list resolved and the run goes on to locate the gateway.
C12_ProviderAndFunctionsIndependent ==
  LayersListed =>
    /\ "getRestApis" \in Range(requests)
    /\ IsSome(service0.functions) =>
         \A f \in 1..Len(Val(service0.functions)) :
           IsSome(Val(service0.functions)[f].layers) =>
             ResolvedInPlace(Val(Val(service0.functions)[f].layers),
                             Val(Val(service.functions)[f].layers))

\* Every entry of the list was processed: the resolved list has the length of the
\* input, and each entry that matches the ARN pattern or names a layer of the
\* inventory is resolved at its position, whatever the other entries are.
EntriesProcessed(input, resolved) ==
  /\ Len(resolved) = Len(input)
  /\ \A i \in 1..Len(input) :
       isArn(input[i]) \/ InInventory(input[i]) =>
         resolved[i] = IF isArn(input[i]) THEN input[i] ELSE LatestArn(input[i])

\* C13: a bare name that the inventory lacks does not stop layer resolution: the
\* other entries of its list and the lists of all functions are processed, no error
\* is raised for it, and the run goes on to locate the gateway.
C13_MissDoesNotStop ==
  LayersListed /\ IsSome(service0.provider.layers) =>
    /\ "TypeError" \notin Range(raised)
    /\ "getRestApis" \in Range(requests)
    /\ EntriesProcessed(Val(service0.provider.layers), Val(service.provider.layers))
    /\ IsSome(service0.functions) =>
         \A f \in 1..Len(Val(service0.functions)) :
           IsSome(Val(service0.functions)[f].layers) =>
             EntriesProcessed(Val(Val(service0.functions)[f].layers),
                              Val(Val(service.functions)[f].layers))

C13_Witness ==
  /\ LayersListed
  /\ pc = "LocatingGateway"
  /\ service0.provider.layers = Some(<<Missing>>)
  /\ IsSome(service0.functions)
  /\ Len(Val(service0.functions)) = 2
  /\ Val(service0.functions)[2].layers = Some(<<SharedUtils>>)
  /\ Val(service.functions)[2].layers = Some(<<ArnShared7>>)

\* A fully-qualified layer ARN, arn:aws:lambda:<region>:<account>:layer:<name>:<version>:
\* eight non-empty fields separated by colons, the version made of digits.
ArnPrefix == <<"a", "r", "n", ":", "a", "w", "s", ":", "l", "a", "m", "b", "d", "a", ":">>
Colons(str) == {i \in 1..Len(str) : str[i] = ":"}
Colon(str, n) == CHOOSE p \in Colons(str) : Cardinality({q \in Colons(str) : q < p}) = n - 1
FullyQualified(str) ==
  /\ Cardinality(Colons(str)) = 7
  /\ startsWith(str, ArnPrefix)
  /\ \A p \in Colons(str) : p < Len(str) /\ p + 1 \notin Colons(str)
  /\ SubSeq(str, Colon(str, 5) + 1, Colon(str, 6) - 1) = <<"l", "a", "y", "e", "r">>
  /\ \A k \in (Colon(str, 7) + 1)..Len(str) : str[k] \in Digits

AllFullyQualified(layers) ==
  IsSome(layers) => \A i \in 1..Len(Val(layers)) : FullyQualified(Val(layers)[i])

\* Every layer reference the service started with is a fully-qualified ARN.
AlreadyResolved ==
  /\ AllFullyQualified(service0.provider.layers)
  /\ IsSome(service0.functions) =>
       \A f \in 1..Len(Val(service0.functions)) :
         AllFullyQualified(Val(service0.functions)[f].layers)

\* Layer resolution has run at least twice (the second run is past it).
ResolvedTwice == Runs >= 2 /\ pc # "ResolvingLayers"

\* C14: when every layer reference of the service is a fully-qualified ARN, two layer
\* resolutions in a row leave the provider-level list and every function's list equal
\* to their original values, whatever the layer inventory is.
C14_ResolveTwiceKeepsArns ==
  ResolvedTwice /\ AlreadyResolved =>
    /\ service.provider.layers = service0.provider.layers
    /\ service.functions = service0.functions

C14_Witness ==
  /\ Runs = 2
  /\ LayersJustResolved
  /\ Len(LayerItems) = 2
  /\ AlreadyResolved
  /\ service0.provider.layers = Some(<<ArnShared7, ArnCommon1>>)
  /\ service.provider.layers = Some(<<ArnShared7, ArnCommon1>>)

\* The positions of the gateways of the getRestApis response whose name is exactly
\* config.name.
NamedGateways == {i \in 1..Len(RespItems) : RespItems[i].name = config.name}

\* C15: findRestApiIdByName returns the id of the first gateway, in the order of the
\* response, whose name equals the name character by character; when the response
\* has no such gateway, an empty list or no list, it returns undefined and raises no
\* error: the run ends with the gateway reported as not found.
C15_FirstExactMatch ==
  RespIs("getRestApis") =>
    /\ NamedGateways # {} =>
         restApiId = RespItems[CHOOSE i \in NamedGateways : \A k \in NamedGateways : i <= k].id
    /\ NamedGateways = {} =>
         /\ restApiId = undefined
         /\ raised = <<>>
         /\ reason = "GatewayNotFound"

C15_Witness ==
  /\ RespIs("getRestApis")
  /\ Len(RespItems) = 2
  /\ RespItems[1].name = config.name /\ RespItems[2].name = config.name
  /\ RespItems[1].id # RespItems[2].id
  /\ restApiId = RespItems[1].id

\* The events of a function that have an HTTP path.
HttpEvents(func) ==
  IF ~IsSome(func.events) THEN {}
  ELSE {j \in 1..Len(Val(func.events)) :
          /\ IsSome(Val(func.events)[j].http)
          /\ IsSome(Val(Val(func.events)[j].http).path)}

\* The run reached resource selection with config.resources unset, one function whose
\* only HTTP event path is /users/{id}, and /users in the path index.
OneUsersIdEvent ==
  /\ SelectionReached
  /\ ~IsSome(config0.resources)
  /\ IsSome(service0.functions)
  /\ Len(Val(service0.functions)) = 1
  /\ LET func == Val(service0.functions)[1] IN
     /\ Cardinality(HttpEvents(func)) = 1
     /\ \A j \in HttpEvents(func) : Val(Val(Val(func.events)[j].http).path) = PUsersId
  /\ InIndex(PUsers)

\* The keys of the path index that are string prefixes of /users/{id}.
PrefixKeys == {i \in KeyPositions : startsWith(PUsersId, RespItems[i].path)}

C17_CommittedState ==
  pc = "Committed" =>
    /\ RespIs("getResources")
    /\ IsSome(config.resources)
    /\ \A i \in 1..Len(Val(config.resources)) : InIndex(Val(config.resources)[i])
    /\ ImportedExactly(Range(Val(config.resources)))
    /\ InIndex(config.path)
    /\ service.provider.apiGateway.restApiRootResourceId = Some(PathId(config.path))

C17_Witness ==
  /\ pc = "Committed"
  /\ ~IsSome(config0.resources)
  /\ config.path = PUsers
  /\ RespItems = <<Resource(PRoot, R0), Resource(PUsers, U1)>>
  /\ config.resources = Some(<<PRoot, PUsers, PRoot, PUsers>>)
  /\ service.provider.apiGateway.restApiRootResourceId = Some(U1)
  /\ Len(Val(service.provider.apiGateway.restApiResources)) = 2

\* The three fields of provider.apiGateway are all written.
GatewayWritten ==
  /\ service.provider.apiGateway.restApiId = Some(restApiId)
  /\ IsSome(service.provider.apiGateway.restApiRootResourceId)
  /\ IsSome(service.provider.apiGateway.restApiResources)

\* C18: restApiId, restApiRootResourceId and restApiResources are written together
\* and at most once in a run, in the step that takes the run to Committed; in every
\* other state, the Aborted ones included (gateway not found, root path not found,
\* missing resource path, failed provider request), provider.apiGateway is as it was
\* before the run.
C18_AtomicWrite ==
  /\ [](pc = "Committed" => GatewayWritten)
  /\ [](pc # "Committed" => service.provider.apiGateway = service0.provider.apiGateway)
  /\ [][service'.provider.apiGateway # service.provider.apiGateway =>
          pc # "Committed" /\ pc' = "Committed"]_vars

C18_Witness ==
  /\ pc = "Aborted"
  /\ reason = "MissingPath"
  /\ config0.resources = Some(<<PUsers, POrders>>)
  /\ InIndex(PUsers) /\ InIndex(PRoot)
  /\ restApiId = G3
  /\ service.provider.apiGateway = EmptyGateway

\* C19: a config.resources explicitly set to the empty list counts as defined: it is
\* neither inferred from the function events nor replaced by all paths, it stays
\* empty, and a run that finds the gateway and the root path ends Committed with an
\* empty restApiResources.
C19_EmptyResourcesAreDefined ==
  config0.resources = Some(<<>>) =>
    /\ config.resources = Some(<<>>)
    /\ SelectionReached =>
         /\ pc = "Committed"
         /\ GatewayWritten
         /\ service.provider.apiGateway.restApiResources = Some(<<>>)
         /\ service.provider.apiGateway.restApiRootResourceId = Some(PathId(config.path))

C19_Witness ==
  /\ config0.resources = Some(<<>>)
  /\ SelectionReached
  /\ InIndex(PUsers) /\ InIndex(PRoot)
  /\ IsSome(service0.functions)
  /\ Len(Val(service0.functions)) = 1
  /\ Val(service0.functions)[1].events = Some(<<Http(PUsersId)>>)
  /\ pc = "Committed"
  /\ service.provider.apiGateway.restApiResources = Some(<<>>)

\* The run before this one ended Committed and this one has ended too.
RerunEnded ==
  /\ IsSome(previous)
  /\ Val(previous).pc = "Committed"
  /\ pc \in RunEnded

\* C20 as stated: when a first run ends Committed, a second run on the config and the
\* service it left, against the same inventory, ends Committed too and leaves the
\* layer lists, config.resources and the three gateway fields as they were after the
\* first run.
C20_RerunStable ==
  RerunEnded =>
    /\ pc = "Committed"
    /\ service = Val(previous).service
    /\ config = Val(previous).config
====
